---- MODULE Spec2Model ----
(***************************************************************************)
(* A model of pouch (src/src/lib.rs): the heterogeneous bag `Pouch` in its *)
(* two build configurations, the standard one (HashMap data + HashMap      *)
(* counts) and the one built with feature "atomic" (DashMap data).         *)
(*                                                                         *)
(* A stored element is a Box<dyn Any>: the model keeps the concrete type   *)
(* of the boxed value next to its payload, and downcast_ref::<T> succeeds  *)
(* exactly when that type is T.  A TypeId is a number; the order of the    *)
(* numbers is TypeId's Ord.  Option is a sequence of length at most one.   *)
(***************************************************************************)
EXTENDS Integers, Sequences, FiniteSets, TLC

\* The concrete types a caller instantiates the generic methods with
\* (TypeId::of::<T>()), ordered as TypeId's Ord orders them.
TypeIds == {1, 2, 3}

\* The values of one type.  The same payload exists in every type: the i32 0
\* and the u64 0 have one representation and two TypeIds.
Payloads == {0, 1}

\* The pouch of one owner never holds more than MaxSize elements in the model.
MaxSize == 3

\* The threads that may share a pouch of the atomic build
Threads == {1, 2, 3}

\* The shards of the DashMap, each behind its own RwLock
ShardIds == {0, 1}

\* The calls one thread makes on the shared pouch
MaxCalls == 2

\* test_thread_safe with M values per thread: the inserts one thread makes
RaceInserts == 2

VARIABLES
    feature_atomic,  \* cfg(feature = "atomic"): fixed when the crate is built
    data,            \* Pouch::data, TypeId -> Vec<Box<dyn Any>>
    counts,          \* Pouch::counts, TypeId -> u64 (standard build only)
    last,            \* the call that ran last and what it returned
    hist_pure,       \* history: only inserts have run since Pouch::new()
    hist_inserts,    \* history: inserts per type, kept while hist_pure
    hist_shared,     \* history: the buckets when the pouch was shared with threads
    lock,            \* atomic build: per shard, the RwLock's writer and readers
    pc,              \* per thread: the step its call is at, or "idle"
    call,            \* per thread: its call in progress, or its last call and result
    local,           \* per thread: the locals of its call
    left,            \* per thread: the calls it may still make
    abs,             \* history: the pouch had every call run alone, when it took its lock
    absret           \* history: per thread, what its call returns on abs

\* The state only one owner's calls use, and the state only threads use
svars == <<counts, last, hist_pure, hist_inserts, hist_shared>>
cvars == <<lock, pc, call, local, left, abs, absret>>

vars == <<feature_atomic, data, svars, cvars>>

----------------------------------------------------------------------------
\* Option<T>
None == <<>>
Some(x) == <<x>>

\* () as a return value
Unit == "unit"

\* HashMap::default() / DashMap::default(): no key
EmptyMap == [k \in {} |-> <<>>]

\* map[k] = v, the key added when absent
MapPut(m, k, v) == [x \in (DOMAIN m) \cup {k} |-> IF x = k THEN v ELSE m[x]]

\* The least and the greatest of a non-empty set of numbers
SetMin(S) == CHOOSE x \in S : \A y \in S : x <= y
SetMax(S) == CHOOSE x \in S : \A y \in S : y <= x

\* Every order in which the keys S can be enumerated
Orders(S) ==
    {s \in [1..Cardinality(S) -> S] : \A i, j \in 1..Cardinality(S) : i # j => s[i] # s[j]}

RECURSIVE SumLen(_, _)
SumLen(m, S) ==
    IF S = {} THEN 0
    ELSE LET k == CHOOSE x \in S : TRUE IN Len(m[k]) + SumLen(m, S \ {k})

\* The number of elements stored in all buckets
Size(m) == SumLen(m, DOMAIN m)

----------------------------------------------------------------------------
\* A variant of Box: Box::new(Box::new(elem)), whose dyn Any is a Box<T> (type
\* 0 here) and not a T
Box_nested(T, elem) == [ty |-> 0, val |-> elem]

\* Box::new(elem) for elem: T, as Box<dyn Any>
Box(T, elem) == [ty |-> T, val |-> elem]

\* <dyn Any>::downcast_ref::<T>()
downcast_ref(el, T) == IF el.ty = T THEN Some(el.val) ELSE None

\* Pouch::new()
new_data == EmptyMap
new_counts == EmptyMap

\* Pouch::is_empty
is_empty(d) == Cardinality(DOMAIN d) = 0

\* Pouch::types: the keys, in the map's iteration order `order`
types(d, order) == [i \in 1..Len(order) |-> order[i]]

\* Pouch::contains, both builds: the scan of Bucket[T]
contains(d, T, t) ==
    IF T \notin DOMAIN d THEN FALSE
    ELSE \E i \in 1..Len(d[T]) : downcast_ref(d[T][i], T) = Some(t)

\* Pouch::get_all_of_type (standard build)
get_all_of_type(d, T) ==
    IF T \notin DOMAIN d THEN <<>>
    ELSE LET elems == d[T]
             keep == {i \in 1..Len(elems) : downcast_ref(elems[i], T) # None}
             F[i \in 0..Len(elems)] ==
                 IF i = 0 THEN <<>>
                 ELSE IF i \in keep THEN Append(F[i - 1], elems[i].val) ELSE F[i - 1]
         IN  F[Len(elems)]

\* A variant of iter: values().filter_map(|v| v.first()), the first element of
\* every bucket only
iter_first_of_each(d, order) ==
    LET F[i \in 0..Len(order)] ==
            IF i = 0 THEN <<>>
            ELSE IF d[order[i]] = <<>> THEN F[i - 1]
            ELSE Append(F[i - 1], d[order[i]][1])
    IN  F[Len(order)]

\* Pouch::iter (standard build): self.data.values().flatten().map(|b| &**b),
\* the buckets one after the other in the map's iteration order `order`, each
\* item the dyn Any in the box
iter(d, order) ==
    LET F[i \in 0..Len(order)] ==
            IF i = 0 THEN <<>> ELSE F[i - 1] \o d[order[i]]
    IN  F[Len(order)]

\* Pouch::count, standard build: the count index
count_std(c, T) == IF T \in DOMAIN c THEN c[T] ELSE 0

\* Pouch::count, atomic build: the bucket's length
count_atomic(d, T) == IF T \in DOMAIN d THEN Len(d[T]) ELSE 0

count(T) == IF feature_atomic THEN count_atomic(data, T) ELSE count_std(counts, T)

\* Pouch::most_common_type, standard build: self.counts.keys().max()
most_common_type_std(c) == IF DOMAIN c = {} THEN None ELSE Some(SetMax(DOMAIN c))

\* Iterator::max_by_key(|r| r.value().len()) over the buckets in iteration
\* order `order`: the last of the longest ones
max_by_key_len(d, order) ==
    LET F[i \in 0..Len(order)] ==
            IF i = 0 THEN None
            ELSE IF F[i - 1] = None THEN Some(order[i])
            ELSE IF Len(d[order[i]]) >= Len(d[F[i - 1][1]]) THEN Some(order[i])
            ELSE F[i - 1]
    IN  F[Len(order)]

\* Pouch::most_common_type, atomic build
most_common_type_atomic(d, order) == max_by_key_len(d, order)

\* A variant of insert_data: get_mut in place of entry().or_default(), so that a
\* value whose type has no bucket yet is dropped
insert_data_existing_only(d, T, elem) ==
    IF T \in DOMAIN d THEN MapPut(d, T, Append(d[T], Box(T, elem))) ELSE d

\* A variant of insert_data: Vec::insert(0, ..) in place of push, the new
\* element put in front of the bucket
insert_data_front(d, T, elem) ==
    LET elems == IF T \in DOMAIN d THEN d[T] ELSE <<>>
    IN  MapPut(d, T, <<Box(T, elem)>> \o elems)

\* self.data.entry(type_id).or_default().push(Box::new(elem))
insert_data(d, T, elem) ==
    LET elems == IF T \in DOMAIN d THEN d[T] ELSE <<>>
    IN  MapPut(d, T, Append(elems, Box(T, elem)))

\* A variant of insert_counts: or_insert(1) with the increment left out
insert_counts_or_insert_1(c, T) == MapPut(c, T, IF T \in DOMAIN c THEN c[T] ELSE 1)

\* *self.counts.entry(type_id).or_insert(0) += 1
insert_counts(c, T) == MapPut(c, T, (IF T \in DOMAIN c THEN c[T] ELSE 0) + 1)

\* A variant of position: the first slot of type T, equal to elem or not
position_any_value(elems, T, elem) ==
    LET hits == {i \in 1..Len(elems) : downcast_ref(elems[i], T) # None}
    IN  IF hits = {} THEN None ELSE Some(SetMin(hits))

\* A variant of position: rposition, the last slot equal to elem
position_last(elems, T, elem) ==
    LET hits == {i \in 1..Len(elems) : downcast_ref(elems[i], T) = Some(elem)}
    IN  IF hits = {} THEN None ELSE Some(SetMax(hits))

\* elems.iter().position(|el| el.downcast_ref::<T>() == Some(&elem))
position(elems, T, elem) ==
    LET hits == {i \in 1..Len(elems) : downcast_ref(elems[i], T) = Some(elem)}
    IN  IF hits = {} THEN None ELSE Some(SetMin(hits))

\* A variant of vec_remove: Vec::retain, which drops every element equal to
\* the one at index
vec_remove_all_equal(elems, index) ==
    LET keep == {i \in 1..Len(elems) : elems[i] # elems[index]}
        F[i \in 0..Len(elems)] ==
            IF i = 0 THEN <<>>
            ELSE IF i \in keep THEN Append(F[i - 1], elems[i]) ELSE F[i - 1]
    IN  F[Len(elems)]

\* A variant of vec_remove: Vec::swap_remove, which moves the last element
\* into the hole
vec_swap_remove(elems, index) ==
    [i \in 1..(Len(elems) - 1) |-> IF i = index THEN elems[Len(elems)] ELSE elems[i]]

\* Vec::remove(index): the later elements shift down
vec_remove(elems, index) ==
    [i \in 1..(Len(elems) - 1) |-> IF i < index THEN elems[i] ELSE elems[i + 1]]

\* u64::saturating_sub(1)
saturating_sub1(n) == IF n = 0 THEN 0 ELSE n - 1

\* A variant of remove_counts: the count index left as it is
remove_counts_forgotten(c, T) == c

\* *self.counts.entry(type_id).or_insert(0) = ....saturating_sub(1)
remove_counts(c, T) == MapPut(c, T, saturating_sub1(IF T \in DOMAIN c THEN c[T] ELSE 0))

\* A variant of remove_data: entry(type_id).or_default() in place of get_mut,
\* which puts an empty bucket under a key that has none
remove_data_or_default(d, T, elem) ==
    LET elems == IF T \in DOMAIN d THEN d[T] ELSE <<>>
        index == position(elems, T, elem)
    IN  IF index # None
        THEN [data |-> MapPut(d, T, vec_remove(elems, index[1])), ret |-> TRUE]
        ELSE [data |-> MapPut(d, T, elems), ret |-> FALSE]

\* A variant of remove_data: the bucket is taken out of the map when its last
\* element goes
remove_data_pruning(d, T, elem) ==
    IF T \in DOMAIN d /\ position(d[T], T, elem) # None
    THEN LET elems == vec_remove(d[T], position(d[T], T, elem)[1])
         IN  [data |-> IF elems = <<>>
                       THEN [U \in DOMAIN d \ {T} |-> d[U]]
                       ELSE MapPut(d, T, elems),
              ret |-> TRUE]
    ELSE [data |-> d, ret |-> FALSE]

\* Pouch::remove on data: the new map and the value returned
remove_data(d, T, elem) ==
    IF T \in DOMAIN d /\ position(d[T], T, elem) # None
    THEN [data |-> MapPut(d, T, vec_remove(d[T], position(d[T], T, elem)[1])), ret |-> TRUE]
    ELSE [data |-> d, ret |-> FALSE]

\* A variant of clear_counts: self.counts.clear() left out
clear_counts_kept(c) == c

\* Pouch::clear: HashMap::clear / DashMap::clear
clear_data(d) == EmptyMap
clear_counts(c) == EmptyMap

----------------------------------------------------------------------------
\* The calls of one owner of the pouch, each run to completion.

Call(op, T, elem, ret) == [ty |-> T, val |-> elem, ret |-> ret, op |-> op]

\* What the call of a thread returns, under the name of its type: (), bool,
\* u64, and Vec<TypeId> or Option<TypeId>; RetUnit stands for the result of a
\* call that has not returned too
RetUnit == [unit |-> Unit]
RetBool(b) == [bool |-> b]
RetU64(n) == [u64 |-> n]
RetKeys(ks) == [keys |-> ks]

\* No call in progress
NoCall == Call("none", 0, 0, RetUnit)
NoLocal ==
    [index |-> 0, keys |-> <<>>, vacant |-> FALSE, shard |-> 0, len |-> 0, best |-> <<>>]

\* Every RwLock free
Unlocked == [s \in ShardIds |-> [writer |-> 0, readers |-> {}]]

\* A pouch no thread shares
NoThreads ==
    /\ lock = Unlocked
    /\ pc = [th \in Threads |-> "idle"]
    /\ call = [th \in Threads |-> NoCall]
    /\ local = [th \in Threads |-> NoLocal]
    /\ left = [th \in Threads |-> 0]
    /\ abs = new_data
    /\ absret = [th \in Threads |-> RetUnit]

Init ==
    /\ feature_atomic \in BOOLEAN
    /\ data = new_data
    /\ counts = new_counts
    /\ last = Call("new", 0, 0, Unit)
    /\ hist_pure = TRUE
    /\ hist_inserts = [T \in TypeIds |-> 0]
    /\ hist_shared = new_data
    /\ NoThreads

Query(c) ==
    /\ last' = c
    /\ UNCHANGED <<feature_atomic, data, counts, hist_pure, hist_inserts, hist_shared, cvars>>

Insert(T, elem) ==
    /\ Size(data) < MaxSize
    /\ data' = insert_data(data, T, elem)
    /\ counts' = IF feature_atomic THEN counts ELSE insert_counts(counts, T)
    /\ last' = Call("insert", T, elem, Unit)
    /\ hist_inserts' = IF hist_pure THEN [hist_inserts EXCEPT ![T] = @ + 1] ELSE hist_inserts
    /\ UNCHANGED <<feature_atomic, hist_pure, hist_shared, cvars>>

Remove(T, elem) ==
    LET r == remove_data(data, T, elem) IN
    /\ data' = r.data
    /\ counts' = IF feature_atomic \/ ~r.ret THEN counts ELSE remove_counts(counts, T)
    /\ last' = Call("remove", T, elem, r.ret)
    /\ hist_pure' = FALSE
    /\ hist_inserts' = [U \in TypeIds |-> 0]
    /\ UNCHANGED <<feature_atomic, hist_shared, cvars>>

Clear ==
    /\ data' = clear_data(data)
    /\ counts' = IF feature_atomic THEN counts ELSE clear_counts(counts)
    /\ last' = Call("clear", 0, 0, Unit)
    /\ hist_pure' = FALSE
    /\ hist_inserts' = [U \in TypeIds |-> 0]
    /\ UNCHANGED <<feature_atomic, hist_shared, cvars>>

Contains(T, elem) == Query(Call("contains", T, elem, contains(data, T, elem)))

Count(T) == Query(Call("count", T, 0, count(T)))

IsEmpty == Query(Call("is_empty", 0, 0, is_empty(data)))

Types == \E order \in Orders(DOMAIN data) : Query(Call("types", 0, 0, types(data, order)))

MostCommonType ==
    IF feature_atomic
    THEN \E order \in Orders(DOMAIN data) :
             Query(Call("most_common_type", 0, 0, most_common_type_atomic(data, order)))
    ELSE Query(Call("most_common_type", 0, 0, most_common_type_std(counts)))

GetAllOfType(T) ==
    /\ ~feature_atomic
    /\ Query(Call("get_all_of_type", T, 0, get_all_of_type(data, T)))

Iter ==
    /\ ~feature_atomic
    /\ \E order \in Orders(DOMAIN data) : Query(Call("iter", 0, 0, iter(data, order)))

Next ==
    \/ \E T \in TypeIds, elem \in Payloads : Insert(T, elem)
    \/ \E T \in TypeIds, elem \in Payloads : Remove(T, elem)
    \/ Clear
    \/ \E T \in TypeIds, elem \in Payloads : Contains(T, elem)
    \/ \E T \in TypeIds : Count(T)
    \/ IsEmpty
    \/ Types
    \/ MostCommonType
    \/ \E T \in TypeIds : GetAllOfType(T)
    \/ Iter

Spec == Init /\ [][Next]_vars

----------------------------------------------------------------------------
\* The atomic build shared by threads.  DashMap keeps its keys in shards, each
\* shard a table behind its own RwLock: entry() and get_mut() hold the write
\* lock of the key's shard, get() its read lock, until the guard they return
\* is dropped; clear() is retain(|_, _| false), which takes the shards one
\* after the other, write-locking one at a time.  A call of a thread is a
\* sequence of steps, and the steps of different threads interleave.

\* The shard a key hashes to
determine_shard(T) == T % 2

\* The keys of map d stored in shard s
shard_keys(d, s) == {T \in DOMAIN d : determine_shard(T) = s}

\* d without its keys in K
MapDrop(d, K) == [T \in (DOMAIN d) \ K |-> d[T]]

\* A variant of can_write: no exclusion at all
can_write_unguarded(l, s) == TRUE

\* A variant of can_read: a reader that does not wait for the writer
can_read_unguarded(l, s) == TRUE

\* A variant of can_write: a writer that waits for the readers only, and not
\* for another writer
can_write_ignoring_writer(l, s) == l[s].readers = {}

\* RwLock::write can be taken: no writer and no reader
can_write(l, s) == l[s].writer = 0 /\ l[s].readers = {}

\* RwLock::read can be taken: no writer
can_read(l, s) == l[s].writer = 0

\* A variant of write_lock: one lock for the whole map, as of a
\* RwLock<HashMap>, in place of one lock a shard
write_lock_whole_map(l, s, th) == [x \in ShardIds |-> [l[x] EXCEPT !.writer = th]]

write_lock(l, s, th) == [l EXCEPT ![s].writer = th]
write_unlock(l, s) == [l EXCEPT ![s].writer = 0]
read_lock(l, s, th) == [l EXCEPT ![s].readers = @ \cup {th}]
\* A variant of read_unlock: the guard is leaked (mem::forget), the lock kept
read_unlock_leaked(l, s, th) == l

read_unlock(l, s, th) == [l EXCEPT ![s].readers = @ \ {th}]

\* A variant of or_insert_with: insert(type_id, Vec::new()), which replaces
\* the bucket of an occupied key too
or_insert_always(d, T, vacant) == MapPut(d, T, <<>>)

\* Entry::or_insert_with(Vec::new): an empty bucket under a vacant key
or_insert_with(d, T, vacant) == IF vacant THEN MapPut(d, T, <<>>) ELSE d

\* DashMap::get as an Option
get(d, T) == IF T \in DOMAIN d THEN Some(d[T]) ELSE None

\* DashMap::clear on one shard: s.write().retain(|_, _| false)
retain_none(d, s) == MapDrop(d, shard_keys(d, s))

\* Thread th starts call c.
Begin(th, c, first) ==
    /\ feature_atomic
    /\ pc[th] = "idle"
    /\ left[th] > 0
    /\ left' = [left EXCEPT ![th] = @ - 1]
    /\ call' = [call EXCEPT ![th] = c]
    /\ pc' = [pc EXCEPT ![th] = first]
    /\ local' = [local EXCEPT ![th] = NoLocal]
    /\ UNCHANGED <<feature_atomic, data, svars, lock, abs, absret>>

\* Thread th's call returns ret.
Return(th, ret) ==
    /\ pc' = [pc EXCEPT ![th] = "idle"]
    /\ call' = [call EXCEPT ![th].ret = ret]
    /\ local' = [local EXCEPT ![th] = NoLocal]

CallInsert(th, T, elem) == Begin(th, Call("insert", T, elem, RetUnit), "entry")
CallRemove(th, T, elem) == Begin(th, Call("remove", T, elem, RetUnit), "get_mut")
CallContains(th, T, elem) == Begin(th, Call("contains", T, elem, RetUnit), "get")
CallCount(th, T) == Begin(th, Call("count", T, 0, RetUnit), "get")
CallClear(th) == Begin(th, Call("clear", 0, 0, RetUnit), "retain")

\* insert: self.data.entry(type_id) takes the shard's write lock and looks the
\* key up
Entry(th) ==
    LET T == call[th].ty
        s == determine_shard(T)
    IN  /\ pc[th] = "entry"
        /\ can_write(lock, s)
        /\ pc' = [pc EXCEPT ![th] = "or_insert_with"]
        /\ lock' = write_lock(lock, s, th)
        /\ local' = [local EXCEPT ![th].vacant = T \notin DOMAIN data]
        /\ abs' = insert_data(abs, T, call[th].val)
        /\ absret' = [absret EXCEPT ![th] = RetUnit]
        /\ UNCHANGED <<feature_atomic, data, svars, call, left>>

\* insert: .or_insert_with(Vec::new) puts an empty bucket under a vacant key
OrInsertWith(th) ==
    LET T == call[th].ty
    IN  /\ pc[th] = "or_insert_with"
        /\ pc' = [pc EXCEPT ![th] = "push"]
        /\ data' = or_insert_with(data, T, local[th].vacant)
        /\ UNCHANGED <<feature_atomic, svars, lock, call, local, left, abs, absret>>

\* insert: .push(Box::new(elem)), and the RefMut is dropped
Push(th) ==
    LET T == call[th].ty
        s == determine_shard(T)
    IN  /\ pc[th] = "push"
        /\ Return(th, RetUnit)
        /\ data' = IF T \in DOMAIN data
                   THEN MapPut(data, T, Append(data[T], Box(T, call[th].val)))
                   ELSE data
        /\ lock' = write_unlock(lock, s)
        /\ UNCHANGED <<feature_atomic, svars, left, abs, absret>>

\* remove: self.data.get_mut(&type_id) takes the shard's write lock; without
\* the key it returns None, the lock released
GetMut(th) ==
    LET T == call[th].ty
        s == determine_shard(T)
        r == remove_data(abs, T, call[th].val)
    IN  /\ pc[th] = "get_mut"
        /\ can_write(lock, s)
        /\ IF T \in DOMAIN data
           THEN /\ pc' = [pc EXCEPT ![th] = "position"]
                /\ lock' = write_lock(lock, s, th)
                /\ UNCHANGED <<call, local>>
           ELSE /\ Return(th, RetBool(FALSE))
                /\ UNCHANGED lock
        /\ abs' = r.data
        /\ absret' = [absret EXCEPT ![th] = RetBool(r.ret)]
        /\ UNCHANGED <<feature_atomic, data, svars, left>>

\* remove: elems.iter().position(..); without a match the guard is dropped and
\* false returned
Position(th) ==
    LET T == call[th].ty
        s == determine_shard(T)
        index == IF T \in DOMAIN data THEN position(data[T], T, call[th].val) ELSE None
    IN  /\ pc[th] = "position"
        /\ IF index # None
           THEN /\ pc' = [pc EXCEPT ![th] = "vec_remove"]
                /\ local' = [local EXCEPT ![th].index = index[1]]
                /\ UNCHANGED <<lock, call>>
           ELSE /\ Return(th, RetBool(FALSE))
                /\ lock' = write_unlock(lock, s)
        /\ UNCHANGED <<feature_atomic, data, svars, left, abs, absret>>

\* remove: elems.remove(index); return true, the guard dropped
VecRemove(th) ==
    LET T == call[th].ty
        s == determine_shard(T)
    IN  /\ pc[th] = "vec_remove"
        /\ Return(th, RetBool(TRUE))
        /\ data' = IF T \in DOMAIN data
                   THEN MapPut(data, T, vec_remove(data[T], local[th].index))
                   ELSE data
        /\ lock' = write_unlock(lock, s)
        /\ UNCHANGED <<feature_atomic, svars, left, abs, absret>>

\* contains, count: self.data.get(&type_id) takes the shard's read lock;
\* without the key the call returns false, or 0
Get(th) ==
    LET T == call[th].ty
        s == determine_shard(T)
        isCount == call[th].op = "count"
    IN  /\ pc[th] = "get"
        /\ can_read(lock, s)
        /\ IF T \in DOMAIN data
           THEN /\ pc' = [pc EXCEPT ![th] = IF isCount THEN "len" ELSE "scan"]
                /\ lock' = read_lock(lock, s, th)
                /\ UNCHANGED <<call, local>>
           ELSE /\ IF isCount THEN Return(th, RetU64(0)) ELSE Return(th, RetBool(FALSE))
                /\ UNCHANGED lock
        /\ absret' = [absret EXCEPT ![th] =
               IF isCount THEN RetU64(count_atomic(abs, T))
               ELSE RetBool(contains(abs, T, call[th].val))]
        /\ UNCHANGED <<feature_atomic, data, svars, left, abs>>

\* contains: the scan of the bucket; the Ref is dropped on return
Scan(th) ==
    LET T == call[th].ty
        s == determine_shard(T)
    IN  /\ pc[th] = "scan"
        /\ Return(th, RetBool(contains(data, T, call[th].val)))
        /\ lock' = read_unlock(lock, s, th)
        /\ UNCHANGED <<feature_atomic, data, svars, left, abs, absret>>

\* count: elems.len() as u64; the Ref is dropped on return
VecLen(th) ==
    LET T == call[th].ty
        s == determine_shard(T)
    IN  /\ pc[th] = "len"
        /\ Return(th, RetU64(count_atomic(data, T)))
        /\ lock' = read_unlock(lock, s, th)
        /\ UNCHANGED <<feature_atomic, data, svars, left, abs, absret>>

\* clear: the next shard is write-locked, emptied and unlocked
RetainShard(th) ==
    LET s == local[th].shard
    IN  /\ pc[th] = "retain"
        /\ can_write(lock, s)
        /\ IF s + 1 \in ShardIds
           THEN /\ local' = [local EXCEPT ![th].shard = s + 1]
                /\ UNCHANGED <<pc, call>>
           ELSE Return(th, RetUnit)
        /\ data' = retain_none(data, s)
        /\ abs' = retain_none(abs, s)
        /\ UNCHANGED <<feature_atomic, svars, lock, left, absret>>

\* The shards whose lock thread th holds
held(l, th) == {s \in ShardIds : l[s].writer = th \/ th \in l[s].readers}

\* The read guards of thread th on the shards in S are dropped.
RECURSIVE drop_guards(_, _, _)
drop_guards(l, S, th) ==
    IF S = {} THEN l
    ELSE LET s == CHOOSE x \in S : TRUE
         IN  drop_guards(read_unlock(l, s, th), S \ {s}, th)

\* A variant of current_guard: the guard of a shard is dropped as soon as the
\* shard's keys have been yielded
current_guard_dropped(s) == {}

\* DashMap's Iter: `current` keeps the read guard of the shard whose keys it
\* yields until the guard of the next shard has been taken
current_guard(s) == {s}

\* Iterator::max_by_key(|r| r.value().len()) carried on from `best`, a
\* RefMulti with the length taken when it was yielded, over the keys `order`
\* of the next shard
max_by_key_from(d, order, best) ==
    LET F[i \in 0..Len(order)] ==
            IF i = 0 THEN best
            ELSE IF F[i - 1] = None \/ Len(d[order[i]]) >= F[i - 1][1].len
                 THEN Some([key |-> order[i], len |-> Len(d[order[i]])])
                 ELSE F[i - 1]
    IN  F[Len(order)]

CallTypes(th) == Begin(th, Call("types", 0, 0, RetUnit), "iter")
CallMostCommonType(th) == Begin(th, Call("most_common_type", 0, 0, RetUnit), "max_by_key")
CallIsEmpty(th) == Begin(th, Call("is_empty", 0, 0, RetUnit), "shard_len")

\* types: self.data.iter() moves on to the next shard: it takes the shard's
\* read lock, then drops the guard of the shard before, and yields the
\* shard's keys in the order of its table
IterNext(th) ==
    LET s == local[th].shard
    IN  /\ pc[th] = "iter"
        /\ can_read(lock, s)
        /\ pc' = [pc EXCEPT ![th] = IF s + 1 \in ShardIds THEN "iter" ELSE "collect"]
        /\ \E order \in Orders(shard_keys(data, s)) :
               local' = [local EXCEPT ![th].keys = @ \o types(data, order),
                                      ![th].shard = s + 1]
        /\ lock' = drop_guards(read_lock(lock, s, th),
                               (held(lock, th) \cup {s}) \ current_guard(s), th)
        /\ UNCHANGED <<feature_atomic, data, svars, call, left, abs, absret>>

\* types: the iterator is exhausted and dropped, and collect() returns
Collect(th) ==
    /\ pc[th] = "collect"
    /\ Return(th, RetKeys(local[th].keys))
    /\ lock' = drop_guards(lock, held(lock, th), th)
    /\ UNCHANGED <<feature_atomic, data, svars, left, abs, absret>>

\* most_common_type: max_by_key draws the keys of the next shard from
\* self.data.iter(); the RefMulti of the longest bucket so far is kept, and
\* with it the read guard of its shard
MaxByKeyNext(th) ==
    LET s == local[th].shard
    IN  /\ pc[th] = "max_by_key"
        /\ can_read(lock, s)
        /\ pc' = [pc EXCEPT ![th] = IF s + 1 \in ShardIds THEN "max_by_key" ELSE "map_key"]
        /\ \E order \in Orders(shard_keys(data, s)) :
               LET best == max_by_key_from(data, order, local[th].best)
                   keep == current_guard(s) \cup
                               (IF best = None THEN {} ELSE {determine_shard(best[1].key)})
               IN  /\ local' = [local EXCEPT ![th].best = best, ![th].shard = s + 1]
                   /\ lock' = drop_guards(read_lock(lock, s, th),
                                          (held(lock, th) \cup {s}) \ keep, th)
        /\ UNCHANGED <<feature_atomic, data, svars, call, left, abs, absret>>

\* most_common_type: .map(|r| *r.key()); the iterator and the RefMulti are
\* dropped
MapKey(th) ==
    LET best == local[th].best
    IN  /\ pc[th] = "map_key"
        /\ Return(th, RetKeys(IF best = None THEN None ELSE Some(best[1].key)))
        /\ lock' = drop_guards(lock, held(lock, th), th)
        /\ UNCHANGED <<feature_atomic, data, svars, left, abs, absret>>

\* is_empty: DashMap::len adds up s.read().len() shard by shard, each guard
\* dropped at once; is_empty is len() == 0
ShardLen(th) ==
    LET s == local[th].shard
        len == local[th].len + Cardinality(shard_keys(data, s))
    IN  /\ pc[th] = "shard_len"
        /\ can_read(lock, s)
        /\ IF s + 1 \in ShardIds
           THEN /\ local' = [local EXCEPT ![th].len = len, ![th].shard = s + 1]
                /\ UNCHANGED <<pc, call>>
           ELSE Return(th, RetBool(len = 0))
        /\ UNCHANGED <<feature_atomic, data, svars, lock, left, abs, absret>>

\* A pouch of the atomic build, new, shared by the threads in W, each making
\* at most n calls
Shared(W, n) ==
    /\ feature_atomic = TRUE
    /\ data = new_data
    /\ counts = new_counts
    /\ last = Call("new", 0, 0, Unit)
    /\ hist_pure = TRUE
    /\ hist_inserts = [T \in TypeIds |-> 0]
    /\ hist_shared = new_data
    /\ lock = Unlocked
    /\ pc = [th \in Threads |-> "idle"]
    /\ call = [th \in Threads |-> NoCall]
    /\ local = [th \in Threads |-> NoLocal]
    /\ left = [th \in Threads |-> IF th \in W THEN n ELSE 0]
    /\ abs = new_data
    /\ absret = [th \in Threads |-> RetUnit]

\* Every thread is between calls.
Quiescent == \A th \in Threads : pc[th] = "idle"

\* Every thread has made all its calls.
AllJoined == Quiescent /\ \A th \in Threads : left[th] = 0

----------------------------------------------------------------------------
\* test_thread_safe: every thread inserts RaceInserts distinct values of one
\* type (i32 there) into a pouch that has no bucket of that type yet.

RaceType == 1

\* The value thread th inserts when it has n inserts left
RaceValue(th, n) == (th - 1) * RaceInserts + (RaceInserts - n)

RaceValues == {RaceValue(th, n) : th \in Threads, n \in 1..RaceInserts}

InitRace == Shared(Threads, RaceInserts)

SpawnInsert(th) == CallInsert(th, RaceType, RaceValue(th, left[th]))

NextRace ==
    \E th \in Threads :
        \/ SpawnInsert(th)
        \/ Entry(th)
        \/ OrInsertWith(th)
        \/ Push(th)

SpecRace == InitRace /\ [][NextRace]_vars

----------------------------------------------------------------------------
\* Two threads calling insert, remove, contains and count on one bucket.

BucketThreads == {1, 2}
BucketType == 1

InitBucket == Shared(BucketThreads, MaxCalls)

NextBucket ==
    \E th \in Threads :
        \/ \E elem \in Payloads : CallInsert(th, BucketType, elem)
        \/ \E elem \in Payloads : CallRemove(th, BucketType, elem)
        \/ \E elem \in Payloads : CallContains(th, BucketType, elem)
        \/ CallCount(th, BucketType)
        \/ Entry(th)
        \/ OrInsertWith(th)
        \/ Push(th)
        \/ GetMut(th)
        \/ Position(th)
        \/ VecRemove(th)
        \/ Get(th)
        \/ Scan(th)
        \/ VecLen(th)

SpecBucket == InitBucket /\ [][NextBucket]_vars

----------------------------------------------------------------------------
\* Two threads calling insert, of any type, and clear.

InitClearRace == Shared(BucketThreads, MaxCalls)

NextClearRace ==
    \E th \in Threads :
        \/ \E T \in TypeIds, elem \in Payloads : CallInsert(th, T, elem)
        \/ CallClear(th)
        \/ Entry(th)
        \/ OrInsertWith(th)
        \/ Push(th)
        \/ RetainShard(th)

SpecClearRace == InitClearRace /\ [][NextClearRace]_vars

----------------------------------------------------------------------------
\* Two threads calling any of the methods of the atomic build, on any type.

InitAll == Shared(BucketThreads, MaxCalls)

\* The values passed: which lock a call takes does not depend on the value
AllPayloads == {0}

\* Thread th starts a call.
CallAny(th) ==
    \/ \E T \in TypeIds, elem \in AllPayloads : CallInsert(th, T, elem)
    \/ \E T \in TypeIds, elem \in AllPayloads : CallRemove(th, T, elem)
    \/ \E T \in TypeIds, elem \in AllPayloads : CallContains(th, T, elem)
    \/ \E T \in TypeIds : CallCount(th, T)
    \/ CallTypes(th)
    \/ CallMostCommonType(th)
    \/ CallIsEmpty(th)
    \/ CallClear(th)

\* Thread th takes the next step of the call it is in.
Step(th) ==
    \/ Entry(th)
    \/ OrInsertWith(th)
    \/ Push(th)
    \/ GetMut(th)
    \/ Position(th)
    \/ VecRemove(th)
    \/ Get(th)
    \/ Scan(th)
    \/ VecLen(th)
    \/ IterNext(th)
    \/ Collect(th)
    \/ MaxByKeyNext(th)
    \/ MapKey(th)
    \/ ShardLen(th)
    \/ RetainShard(th)

NextAll == \E th \in Threads : CallAny(th) \/ Step(th)

SpecAll == InitAll /\ [][NextAll]_vars

\* Every thread that is in a call and can take its next step does take it: the
\* scheduler runs every thread, and a thread is never cancelled.
SpecAllFair == SpecAll /\ \A th \in BucketThreads : WF_<<pc, local>>(Step(th))

----------------------------------------------------------------------------
\* Two threads calling clear, types, count, contains and is_empty, and no
\* insert, on a pouch in which one owner has put a value of each type in S
\* before sharing it.

ClearedValue == 0

InitClearSeen ==
    \E S \in SUBSET TypeIds :
        /\ feature_atomic = TRUE
        /\ data = [T \in S |-> <<Box(T, ClearedValue)>>]
        /\ counts = new_counts
        /\ last = Call("new", 0, 0, Unit)
        /\ hist_pure = TRUE
        /\ hist_inserts = [T \in TypeIds |-> IF T \in S THEN 1 ELSE 0]
        /\ hist_shared = data
        /\ lock = Unlocked
        /\ pc = [th \in Threads |-> "idle"]
        /\ call = [th \in Threads |-> NoCall]
        /\ local = [th \in Threads |-> NoLocal]
        /\ left = [th \in Threads |-> IF th \in BucketThreads THEN MaxCalls ELSE 0]
        /\ abs = data
        /\ absret = [th \in Threads |-> RetUnit]

NextClearSeen ==
    \E th \in Threads :
        \/ CallClear(th)
        \/ CallTypes(th)
        \/ CallIsEmpty(th)
        \/ \E T \in TypeIds : CallCount(th, T)
        \/ \E T \in TypeIds : CallContains(th, T, ClearedValue)
        \/ RetainShard(th)
        \/ IterNext(th)
        \/ Collect(th)
        \/ ShardLen(th)
        \/ Get(th)
        \/ Scan(th)
        \/ VecLen(th)

SpecClearSeen == InitClearSeen /\ [][NextClearSeen]_vars

----------------------------------------------------------------------------
\* Every thread in W calling remove(RemoveValue) once, and no insert and no
\* clear, on a pouch into which one owner has inserted the values `vals` of
\* type BucketType before sharing it.

RemoveValue == 0

\* The values the owner may have inserted: at most n, in any order
Inserted(n) == UNION {[1..len -> Payloads] : len \in 0..n}

\* The buckets insert leaves when it is called with each of vals in turn
RECURSIVE insert_each(_, _, _)
insert_each(d, T, vals) ==
    IF vals = <<>> THEN d
    ELSE insert_each(insert_data(d, T, Head(vals)), T, Tail(vals))

InitRemoveRace ==
    \E vals \in Inserted(MaxSize), W \in SUBSET Threads :
        /\ feature_atomic = TRUE
        /\ data = insert_each(new_data, BucketType, vals)
        /\ counts = new_counts
        /\ last = Call("new", 0, 0, Unit)
        /\ hist_pure = TRUE
        /\ hist_inserts = [T \in TypeIds |-> IF T = BucketType THEN Len(vals) ELSE 0]
        /\ hist_shared = data
        /\ lock = Unlocked
        /\ pc = [th \in Threads |-> "idle"]
        /\ call = [th \in Threads |-> NoCall]
        /\ local = [th \in Threads |-> NoLocal]
        /\ left = [th \in Threads |-> IF th \in W THEN 1 ELSE 0]
        /\ abs = data
        /\ absret = [th \in Threads |-> RetUnit]

NextRemoveRace ==
    \E th \in Threads :
        \/ CallRemove(th, BucketType, RemoveValue)
        \/ GetMut(th)
        \/ Position(th)
        \/ VecRemove(th)

SpecRemoveRace == InitRemoveRace /\ [][NextRemoveRace]_vars

----------------------------------------------------------------------------
\* Properties of the calls of one owner (Spec).

\* The step that leads to the primed state ran the call last'.
Ran(op) == last'.op = op

\* How many elements of Bucket[T] equal t
occurrences(d, T, t) ==
    IF T \notin DOMAIN d THEN 0
    ELSE Cardinality({i \in 1..Len(d[T]) : d[T][i] = Box(T, t)})

\* s without its i-th element
without(s, i) == [j \in 1..(Len(s) - 1) |-> IF j < i THEN s[j] ELSE s[j + 1]]

\* C1: in both builds, as long as only inserts have run since Pouch::new(),
\* count::<T>() is the number of inserts of a value of exactly type T, for
\* every type T (0 for a type never inserted).
C1_CountIsNumberOfInserts ==
    hist_pure => \A T \in TypeIds : count(T) = hist_inserts[T]

C1_Witness ==
    /\ hist_pure
    /\ last.op = "insert"
    /\ \E T, U, V \in TypeIds :
           hist_inserts[T] = 2 /\ hist_inserts[U] = 1 /\ hist_inserts[V] = 0

\* C2: contains(v) is true right after insert(v), and a step that is neither a
\* remove of a value equal to v nor a clear never makes contains(v) false:
\* inserts, and removes of other values or of other types, keep it true.
C2_Step ==
    /\ Ran("insert") => contains(data', last'.ty, last'.val)
    /\ \A T \in TypeIds, t \in Payloads :
           (/\ contains(data, T, t)
            /\ ~Ran("clear")
            /\ ~(Ran("remove") /\ last'.ty = T /\ last'.val = t))
           => contains(data', T, t)

C2_ContainsUntilRemoved == [][C2_Step]_vars

C2_Witness ==
    /\ last.op = "remove"
    /\ last.ret = TRUE
    /\ \E t \in Payloads : t # last.val /\ contains(data, last.ty, t)

\* C3: remove(v) returns true exactly when an element equal to v is stored,
\* and then takes out exactly one of them and no element of another value, so
\* that with k elements equal to v stored and no insert in between the first k
\* calls return true and the later ones false; a remove(v) of an absent value
\* returns false and leaves the buckets, the count index and the known types
\* as they were.
C3_Step ==
    Ran("remove") =>
        LET T == last'.ty
            t == last'.val
            k == occurrences(data, T, t)
        IN  /\ last'.ret = (k > 0)
            /\ k > 0 => occurrences(data', T, t) = k - 1
            /\ \A U \in TypeIds, u \in Payloads :
                   <<U, u>> # <<T, t>> => occurrences(data', U, u) = occurrences(data, U, u)
            /\ k = 0 => (data' = data /\ counts' = counts /\ DOMAIN data' = DOMAIN data)

C3_RemoveOncePerElement == [][C3_Step]_vars

C3_Witness ==
    /\ last.op = "remove"
    /\ last.ret = TRUE
    /\ occurrences(data, last.ty, last.val) = 1
    /\ Size(data) = 2

\* C4: when one type has strictly more stored elements than every other type,
\* most_common_type() returns that type's TypeId, and on an empty pouch it
\* returns none, in both builds.
StrictlyMost(T) ==
    /\ T \in DOMAIN data
    /\ \A U \in TypeIds \ {T} : count_atomic(data, U) < Len(data[T])

C4_MostCommonIsStrictMax ==
    last.op = "most_common_type" =>
        /\ \A T \in TypeIds : StrictlyMost(T) => last.ret = Some(T)
        /\ is_empty(data) => last.ret = None

\* C5: right after clear() the pouch is the pouch Pouch::new() builds, so that
\* every later call answers as on a new pouch, and every query answers as on a
\* new pouch: count 0, contains false, no types, is_empty, no most common
\* type, get_all_of_type empty.
C5_ClearIsFresh ==
    last.op = "clear" =>
        /\ data = new_data
        /\ counts = new_counts
        /\ is_empty(data)
        /\ \A order \in Orders(DOMAIN data) : types(data, order) = <<>>
        /\ \A T \in TypeIds :
               /\ count(T) = 0
               /\ \A t \in Payloads : ~contains(data, T, t)
               /\ ~feature_atomic => get_all_of_type(data, T) = <<>>
        /\ IF feature_atomic
           THEN \A order \in Orders(DOMAIN data) : most_common_type_atomic(data, order) = None
           ELSE most_common_type_std(counts) = None

C5_Witness == last.op = "clear" /\ is_empty(data) /\ ~hist_pure

\* C6: is_empty() is true exactly when types() is the empty sequence, that is
\* when the bucket index has no key; a new pouch is empty, and a pouch is not
\* empty right after an insert.
C6_EmptyIffNoTypes ==
    /\ \A order \in Orders(DOMAIN data) :
           /\ is_empty(data) <=> (types(data, order) = <<>>)
           /\ is_empty(data) <=> (DOMAIN data = {})
    /\ last.op = "new" => is_empty(data)
    /\ last.op = "insert" => ~is_empty(data)

C6_Witness == last.op = "remove" /\ last.ret = TRUE /\ Size(data) = 0 /\ ~is_empty(data)

\* C7: in the standard build get_all_of_type::<T>() has count::<T>() elements
\* and lists the values of type T inserted and neither removed nor cleared
\* since, in insertion order: it is empty on a new pouch, an insert of type T
\* appends its value, a successful remove of type T takes out one element
\* equal to its value and keeps the order of the others, clear empties it, and
\* no other call changes it.
C7_Length ==
    ~feature_atomic => \A T \in TypeIds : Len(get_all_of_type(data, T)) = count(T)

C7_Step ==
    ~feature_atomic =>
        \A T \in TypeIds :
            LET old == get_all_of_type(data, T)
                new == get_all_of_type(data', T)
            IN  CASE Ran("insert") /\ last'.ty = T -> new = Append(old, last'.val)
                  [] Ran("remove") /\ last'.ty = T /\ last'.ret = TRUE ->
                         \E i \in 1..Len(old) : old[i] = last'.val /\ new = without(old, i)
                  [] Ran("clear") -> new = <<>>
                  [] OTHER -> new = old

Queries == {"count", "contains", "is_empty", "types", "most_common_type", "get_all_of_type"}

\* What a step of one owner's call does when the type has no bucket, and what
\* a query leaves unchanged
C12_Step ==
    /\ last'.ty \in TypeIds /\ last'.ty \notin DOMAIN data =>
           /\ Ran("count") => last'.ret = 0
           /\ Ran("contains") => last'.ret = FALSE
           /\ Ran("remove") => last'.ret = FALSE /\ data' = data /\ counts' = counts
           /\ Ran("get_all_of_type") => last'.ret = <<>>
    /\ Ran("most_common_type") /\ is_empty(data) => last'.ret = None
    /\ last'.op \in Queries =>
           /\ data' = data
           /\ counts' = counts
           /\ is_empty(data') = is_empty(data)
           /\ DOMAIN data' = DOMAIN data

\* C12: a call about a type that has no bucket answers "nothing found":
\* count 0, contains false, remove false, get_all_of_type empty, and
\* most_common_type none on a pouch without buckets; and neither such a call
\* nor any query (count, contains, is_empty, types, most_common_type,
\* get_all_of_type) changes the buckets or the count index, so that it creates
\* no key and is_empty() and types() answer as before.
C12_AbsenceIsNoError == [][C12_Step]_vars

C12_Witness ==
    /\ last.op = "remove"
    /\ last.ret = FALSE
    /\ last.ty \notin DOMAIN data
    /\ ~is_empty(data)

\* C13: the two builds answer alike.  insert, remove and clear act on data by
\* the same operators in both builds, so that after the same calls of one
\* thread a pouch of the atomic build holds the buckets `data` of the pouch of
\* the standard build, which holds `counts` beside them.  In every state of the
\* standard build each query then answers as the atomic build's query on the
\* same buckets: count, contains, remove, is_empty, types as a set, and
\* most_common_type when one type has strictly the most elements.
C13_SameContract ==
    ~feature_atomic =>
        /\ \A T \in TypeIds : count_std(counts, T) = count_atomic(data, T)
        /\ DOMAIN counts = DOMAIN data
        /\ \A T \in TypeIds :
               StrictlyMost(T) =>
                   \A order \in Orders(DOMAIN data) :
                       most_common_type_std(counts) = most_common_type_atomic(data, order)
        /\ is_empty(data) => most_common_type_std(counts) = None

\* The step of a types() call that follows the first inserts of two types
C14_Step ==
    (feature_atomic /\ hist_pure /\ last.op = "insert" /\ Ran("types")) =>
        \A A \in TypeIds \ {last.ty} :
            hist_inserts = [T \in TypeIds |-> IF T \in {A, last.ty} THEN 1 ELSE 0]
                => last'.ret = <<A, last.ty>>

\* C14: in the atomic build types() lists the keys in the order of their first
\* inserts: called right after one insert of a value of type A and then one
\* of a value of type B into a new pouch, it returns <<A, B>>.
C14_TypesInInsertionOrder == [][C14_Step]_vars

\* count::<T>() in the state a step leads to
count_next(T) == IF feature_atomic THEN count_atomic(data', T) ELSE count_std(counts', T)

\* counts mirrors data in a state, and across an insert or a remove
C15_Inv ==
    ~feature_atomic =>
        /\ DOMAIN counts = DOMAIN data
        /\ \A k \in DOMAIN data : counts[k] = Len(data[k])

C15_Step ==
    ~feature_atomic =>
        LET T == last'.ty IN
        /\ Ran("insert") =>
               /\ Len(data'[T]) = count_atomic(data, T) + 1
               /\ counts'[T] = count_std(counts, T) + 1
        /\ Ran("remove") /\ last'.ret = TRUE =>
               /\ T \in DOMAIN data' /\ T \in DOMAIN counts'
               /\ Len(data'[T]) = Len(data[T]) - 1
               /\ counts'[T] = counts[T] - 1
               /\ Len(data[T]) = 1 => data'[T] = <<>> /\ counts'[T] = 0

\* C15: in the standard build the count index and the bucket index have the
\* same keys in every reachable state, and counts[k] is the length of
\* Bucket[k]; an insert and a successful remove change the bucket and its
\* count by one in the same step, and the key of a bucket whose last element
\* is removed stays, with count 0 and an empty bucket.
C15_CountIndexMatchesBuckets == []C15_Inv /\ [][C15_Step]_vars

C15_Witness ==
    /\ ~feature_atomic
    /\ last.op = "remove"
    /\ last.ret = TRUE
    /\ data[last.ty] = <<>>
    /\ counts[last.ty] = 0
    /\ Size(data) > 0

\* The step of a successful remove
C16_Step ==
    Ran("remove") /\ last'.ret = TRUE =>
        LET T == last'.ty
            v == last'.val
            old == data[T]
            first == SetMin({i \in 1..Len(old) : old[i] = Box(T, v)})
        IN  /\ data'[T] = without(old, first)
            /\ Len(data'[T]) = Len(old) - 1
            /\ count_next(T) = count(T) - 1
            /\ occurrences(data, T, v) > 1 => contains(data', T, v)
            /\ \A U \in DOMAIN data \ {T} : data'[U] = data[U]

\* C16: a successful remove(v) takes out the first element of Bucket[T] equal
\* to v and nothing else: the bucket's length and count::<T>() drop by one,
\* the other elements keep their order, a further element equal to v stays
\* (contains(v) is still true), and the other buckets are as before.
C16_RemoveFirstMatch == [][C16_Step]_vars

C16_Witness ==
    /\ last.op = "remove"
    /\ last.ret = TRUE
    /\ Len(data[last.ty]) = 2
    /\ data[last.ty][1].val # last.val
    /\ data[last.ty][2].val = last.val

\* Buckets hold their own type only, in a state and across contains and remove
C17_Inv ==
    \A k \in DOMAIN data : \A i \in 1..Len(data[k]) :
        data[k][i].ty = k /\ downcast_ref(data[k][i], k) # None

C17_Step ==
    LET T == last'.ty IN
    /\ Ran("contains") =>
           last'.ret = (T \in DOMAIN data /\ \E i \in 1..Len(data[T]) :
                            data[T][i].ty = T /\ data[T][i].val = last'.val)
    /\ Ran("remove") =>
           \A U \in TypeIds \ {T} :
               get(data', U) = get(data, U) /\ count_next(U) = count(U)

\* C17: every element of Bucket[k] is of type k in every reachable state, so
\* that downcast_ref to the bucket's type never fails; contains(v) for v of
\* type T is true only when an element of type T equal to v is stored, whatever
\* values of the same representation other types hold, and remove(v) leaves
\* the buckets and the counts of the other types as they were.
C17_Keying == []C17_Inv /\ [][C17_Step]_vars

C17_Witness ==
    /\ last.op = "contains"
    /\ last.ret = FALSE
    /\ last.ty \in DOMAIN data
    /\ \E U \in TypeIds \ {last.ty} : contains(data, U, last.val)

\* Which steps add and drop keys of data
C18_Step ==
    /\ \A T \in TypeIds :
           /\ T \in DOMAIN data /\ ~Ran("clear") => T \in DOMAIN data'
           /\ T \notin DOMAIN data /\ T \in DOMAIN data' => Ran("insert") /\ last'.ty = T
    /\ Ran("clear") => DOMAIN data' = {}
    /\ Ran("types") =>
           /\ Len(last'.ret) = Cardinality(DOMAIN data)
           /\ \A T \in DOMAIN data :
                  Cardinality({i \in 1..Len(last'.ret) : last'.ret[i] = T}) = 1
    /\ Ran("is_empty") /\ DOMAIN data # {} => last'.ret = FALSE

\* C18: the key of a bucket comes into the map only by an insert of a value of
\* its type and leaves it only by clear(): every other step keeps every key,
\* a remove that empties the bucket too; clear() leaves no key; types() lists
\* every key exactly once, and is_empty() is false while there is a key.
C18_BucketLifetime == [][C18_Step]_vars

C18_Witness ==
    /\ last.op = "is_empty"
    /\ last.ret = FALSE
    /\ Size(data) = 0
    /\ Cardinality(DOMAIN data) = 2

\* The items of type T among the items r, in the order of r
of_type(r, T) ==
    LET F[i \in 0..Len(r)] ==
            IF i = 0 THEN <<>>
            ELSE IF r[i].ty = T THEN Append(F[i - 1], r[i]) ELSE F[i - 1]
    IN  F[Len(r)]

\* The sum of count::<T>() over the types in S
RECURSIVE SumCount(_)
SumCount(S) ==
    IF S = {} THEN 0
    ELSE LET T == CHOOSE x \in S : TRUE IN count(T) + SumCount(S \ {T})

\* What an iter() call of the standard build yields
C21_Step ==
    Ran("iter") =>
        LET r == last'.ret IN
        /\ ~feature_atomic
        /\ Len(r) = SumCount(TypeIds)
        /\ Len(r) = Size(data)
        /\ \A T \in TypeIds :
               /\ of_type(r, T) = (IF T \in DOMAIN data THEN data[T] ELSE <<>>)
               /\ [i \in 1..Len(of_type(r, T)) |-> of_type(r, T)[i].val]
                      = get_all_of_type(data, T)
        /\ \A i \in 1..Len(r) : r[i].ty \in DOMAIN data
        /\ data' = data /\ counts' = counts

\* C21: in the standard build iter() yields every stored element exactly once,
\* whatever its type: the number of items is the sum of count::<T>() over all
\* types, the items of type T are Bucket[T] in the bucket's order (the values
\* get_all_of_type::<T>() lists, so none that was removed or cleared), and the
\* call changes nothing.
C21_IterYieldsAllOnce == [][C21_Step]_vars

C21_Witness ==
    /\ last.op = "iter"
    /\ ~hist_pure
    /\ Len(last.ret) = 3
    /\ last.ret[1].ty > last.ret[2].ty
    /\ last.ret[2].ty = last.ret[3].ty
    /\ last.ret[2].val # last.ret[3].val
    /\ Size(data) = 3

\* insert can be called with every value of every type
C23_Inv ==
    Size(data) < MaxSize => \A T \in TypeIds, elem \in Payloads : ENABLED Insert(T, elem)

\* What an insert changes and what it leaves alone
C23_Step ==
    Ran("insert") =>
        LET T == last'.ty
            old == IF T \in DOMAIN data THEN data[T] ELSE <<>>
        IN  /\ last'.ret = Unit
            /\ DOMAIN data' = DOMAIN data \cup {T}
            /\ data'[T] = Append(old, Box(T, last'.val))
            /\ SubSeq(data'[T], 1, Len(old)) = old
            /\ \A U \in DOMAIN data \ {T} : data'[U] = data[U]
            /\ count_next(T) = count(T) + 1
            /\ \A U \in TypeIds \ {T} : count_next(U) = count(U)
            /\ IF feature_atomic
               THEN counts' = counts
               ELSE /\ DOMAIN counts' = DOMAIN counts \cup {T}
                    /\ counts'[T] = count_std(counts, T) + 1
                    /\ \A U \in DOMAIN counts \ {T} : counts'[U] = counts[U]

\* C23: insert(value: T) has no error path and changes the state of type T
\* only: it returns (), it can be called in every state, Bucket[T] is the
\* bucket before (empty when there was none, the key then added) with the
\* boxed value appended at its end, the earlier elements in their order; in
\* the standard build counts[T] grows by exactly 1 (from 0 without a key);
\* every other bucket and every other count is as before, and no other key
\* comes or goes.
C23_InsertFrame == []C23_Inv /\ [][C23_Step]_vars

C23_Witness ==
    /\ last.op = "insert"
    /\ ~hist_pure
    /\ Len(data[last.ty]) = 2
    /\ data[last.ty][1].val # data[last.ty][2].val
    /\ data[last.ty][2].val = last.val
    /\ \E U \in DOMAIN data \ {last.ty} : Len(data[U]) = 1

----------------------------------------------------------------------------
\* Properties of the atomic build shared by threads.

\* C8: when every thread has inserted its RaceInserts distinct values of one
\* type into a shared pouch that had no bucket of that type, then under every
\* interleaving count::<T>() is the number of threads times RaceInserts and
\* every inserted value is in the bucket exactly once.
C8_NoLostInsert ==
    AllJoined =>
        /\ count_atomic(data, RaceType) = Cardinality(Threads) * RaceInserts
        /\ \A v \in RaceValues : occurrences(data, RaceType, v) = 1

C8_Witness ==
    /\ AllJoined
    /\ data[RaceType][1].val = RaceValue(2, RaceInserts)
    /\ data[RaceType][2].val = RaceValue(1, RaceInserts)
    /\ data[RaceType][3].val = RaceValue(2, RaceInserts - 1)

\* C9: insert, remove, contains and count of different threads on one bucket
\* are linearizable: every call takes effect at one step between its start and
\* its return (the step that takes the shard's lock), that is it returns what
\* it returns when the calls run alone in the order of these steps, and the
\* bucket the threads leave is the bucket these runs leave.
C9_Linearizable ==
    /\ \A th \in Threads :
           (pc[th] = "idle" /\ call[th].op # "none") => call[th].ret = absret[th]
    /\ Quiescent => data = abs

C9_Witness ==
    /\ pc[1] = "vec_remove"
    /\ pc[2] = "get"
    /\ call[2].op = "contains"
    /\ call[2].val = call[1].val
    /\ left[1] = 0
    /\ ~can_read(lock, determine_shard(BucketType))

\* C10: an insert that races with clear() lands before the clear reaches its
\* shard, and is removed, or after it, and is stored: whenever no thread holds
\* a shard's lock, each bucket of the shard holds exactly the values inserted
\* since the last clear of the shard, each once, in the order the inserts took
\* the lock, and every bucket holds only values of its own type.
C10_InsertBeforeOrAfterClear ==
    /\ \A s \in ShardIds :
           (lock[s].writer = 0 /\ lock[s].readers = {}) =>
               \A T \in TypeIds : determine_shard(T) = s => get(data, T) = get(abs, T)
    /\ \A T \in DOMAIN data : \A i \in 1..Len(data[T]) : data[T][i].ty = T

C10_Witness ==
    /\ pc[1] = "retain"
    /\ local[1].shard = 1
    /\ pc[2] = "push"
    /\ determine_shard(call[2].ty) = 1
    /\ \E T \in DOMAIN data : determine_shard(T) = 0 /\ Len(data[T]) = 1

\* Thread th is in a call and cannot take its next step: the lock the step
\* takes is held by another thread.
Waiting(th) == pc[th] # "idle" /\ ~ENABLED Step(th)

\* While a call is in progress some thread can take a step.
DeadlockFree == (\E th \in Threads : pc[th] # "idle") => \E th \in Threads : ENABLED Step(th)

\* Every started call returns.
Completes == \A th \in Threads : (pc[th] # "idle") ~> (pc[th] = "idle")

LockOrder ==
    \A th \in Threads :
        (Waiting(th) /\ held(lock, th) # {}) =>
            /\ pc[th] \in {"iter", "max_by_key"}
            /\ \A s \in held(lock, th) : th \in lock[s].readers /\ s < local[th].shard

MidWrite(th, other) ==
    /\ th # other
    /\ pc[th] \in {"or_insert_with", "push", "position", "vec_remove"}
    /\ pc[other] \in {"entry", "get_mut", "get"}
    /\ call[other].ty # call[th].ty

PreClear == {T \in TypeIds : hist_inserts[T] > 0}

\* The keys a returned types() call of thread th lists
seen_keys(th) == {call[th].ret.keys[i] : i \in 1..Len(call[th].ret.keys)}

\* Thread th has returned from a call of op.
Returned(th, op) == pc[th] = "idle" /\ call[th].op = op

\* C20 as it stands: with no insert running, a types() call that runs while
\* clear() does lists all the buckets there were before the clear or none of
\* them.
C20_ClearIsAtomic ==
    \A th \in Threads :
        Returned(th, "types") => seen_keys(th) = PreClear \/ seen_keys(th) = {}

\* C20, amended: clear() empties the shards one after the other, in the order
\* in which types() visits them, and each shard in one step.  With no insert
\* running, a types() call lists each key once and sees every shard as it
\* was before the clear or empty, the emptied shards first: it lists the
\* buckets of the shards from some shard on.  count and contains, which look
\* at one bucket, answer as before the clear or as on an empty pouch, and
\* is_empty() is false only if there was a bucket.
C20_ClearShardByShard ==
    \A th \in Threads :
        /\ Returned(th, "types") =>
               /\ Len(call[th].ret.keys) = Cardinality(seen_keys(th))
               /\ \E k \in ShardIds \cup {Cardinality(ShardIds)} :
                      seen_keys(th) = {T \in PreClear : determine_shard(T) >= k}
        /\ Returned(th, "count") => call[th].ret.u64 \in {hist_inserts[call[th].ty], 0}
        /\ Returned(th, "contains") => (call[th].ret.bool => call[th].ty \in PreClear)
        /\ Returned(th, "is_empty") => (~call[th].ret.bool => PreClear # {})

C20_Witness ==
    \E th \in Threads :
        /\ Returned(th, "types")
        /\ PreClear = TypeIds
        /\ seen_keys(th) = {T \in TypeIds : determine_shard(T) = 1}

\* The threads whose remove call has returned ret
removers(ret) == {th \in Threads : Returned(th, "remove") /\ call[th].ret = RetBool(ret)}

Min(a, b) == IF a <= b THEN a ELSE b

\* C22: with k elements equal to v in the bucket when the pouch is shared and
\* m threads calling remove(v), and no insert and no clear, under every
\* interleaving: at every moment the elements equal to v still stored and the
\* calls that have returned true add up to k, so that no element is reported
\* removed twice; and when all m calls have returned, exactly min(k, m) of
\* them have returned true, count::<T>() has dropped by min(k, m), and the
\* elements of other values are all there.
C22_ConcurrentRemoveOncePerElement ==
    LET T == BucketType
        v == RemoveValue
        k == occurrences(hist_shared, T, v)
        m == Cardinality({th \in Threads : left[th] = 0 /\ call[th].op = "remove"})
    IN  /\ occurrences(data, T, v) + Cardinality(removers(TRUE)) = k
        /\ AllJoined =>
               /\ Cardinality(removers(TRUE)) = Min(k, m)
               /\ Cardinality(removers(FALSE)) = m - Min(k, m)
               /\ count_atomic(data, T) = count_atomic(hist_shared, T) - Min(k, m)
               /\ \A u \in Payloads \ {v} :
                      occurrences(data, T, u) = occurrences(hist_shared, T, u)

C22_Witness ==
    /\ AllJoined
    /\ Cardinality({th \in Threads : call[th].op = "remove"}) = 3
    /\ get(hist_shared, BucketType)
           = Some(<<Box(BucketType, 1), Box(BucketType, RemoveValue), Box(BucketType, RemoveValue)>>)
    /\ call[1].ret = RetBool(FALSE)
    /\ call[3].ret = RetBool(TRUE)
    /\ get(data, BucketType) = Some(<<Box(BucketType, 1)>>)

====
